---------------------------- MODULE Spec2Model ----------------------------
(***************************************************************************)
(* A model of agent_worker.py: the HomeAssistant tool surface              *)
(* (search_smart_home_devices, get_entity_info, change_light_state), the   *)
(* REST calls it makes to the home-automation platform, and the RPC        *)
(* worker NodeSmartHomeAgent.call_llm that runs one orchestration context  *)
(* per request.                                                            *)
(*                                                                         *)
(* Every HTTP call is one step: the request is sent and the platform's     *)
(* answer (a status code with a body, or a transport fault raised by the   *)
(* requests library) is drawn nondeterministically.  A Python value that   *)
(* may be None is a sequence of length 0 or 1; a formatted message is the  *)
(* sequence of its fragments.                                              *)
(*                                                                         *)
(* fuzz.partial_ratio belongs to a third-party library: its two results    *)
(* for an entry (against the identifier and against the friendly name)     *)
(* are part of the snapshot entry the platform answer is drawn from.       *)
(***************************************************************************)
EXTENDS Integers, Sequences, FiniteSets, TLC

VARIABLES
    ha,                 \* the process-wide HomeAssistant instance: base_url, headers
    light,              \* platform: the state token of every light
    pc,                 \* position of every RPC request
    assistant,          \* the Assistant object every request runs (0: none yet)
    nextObj,            \* identity of the next object constructed
    tool,               \* the tool a request is in, or "none"
    args,               \* the arguments of that tool call
    http,               \* the HTTP requests that tool call has issued, in order
    ret,                \* what the tool call gave back to the orchestrator
    interfered,         \* history: another request wrote the entity between this
                        \* call's write and its read-back
    all_entities,       \* search: the snapshot returned by GET /api/states
    idx,                \* search: position of the loop over all_entities
    matching_entities   \* search: the candidates collected so far

vars == <<ha, light, pc, assistant, nextObj, tool, args, http, ret, interfered,
          all_entities, idx, matching_entities>>

searchVars == <<all_entities, idx, matching_entities>>

---------------------------------------------------------------------------
(* Bounds *)

MaxReqs == 2        \* RPC requests in flight
MaxEntities == 3    \* entries in a platform snapshot

(* Program constants *)

HTTP_OK == 200
THRESHOLD == 70
FULL_SCALE == 255
PERCENT == 100

Reqs == 1 .. MaxReqs

Entities == {"light.a", "light.b"}

\* brightness: int = None, "percent from 0 to 100"
Percent == 0 .. PERCENT
AllBrightness == {<<>>} \cup {<<p>> : p \in Percent}
\* the brightness arguments drawn where requests run concurrently
NoBrightness == {<<>>}

\* fuzz.partial_ratio results an entry is drawn with: at the threshold, just
\* above it, and exact containment
Scores == {THRESHOLD, THRESHOLD + 1, 100}

---------------------------------------------------------------------------
(* The platform's answers *)

\* a response of requests.get / requests.post, or the fault it raises
Response(fault, status_code, text) ==
    [fault |-> fault, status_code |-> status_code, text |-> text]

Fault == Response(TRUE, 0, "ConnectionError")

\* POST /api/services/...: accepted, refused, or a transport fault
ServiceResponses == {Response(FALSE, HTTP_OK, "[]"), Response(FALSE, 500, "error"), Fault}

\* GET /api/states/{entity_id}: the truthful state, a refusal, or a fault
StateResponses(entity_id) ==
    {Response(FALSE, HTTP_OK, light[entity_id]), Response(FALSE, 404, "error"), Fault}

\* POST /api/template: an area name, an empty rendering, a refusal, or a fault
TemplateResponses ==
    {Response(FALSE, HTTP_OK, "Kitchen"), Response(FALSE, HTTP_OK, ""),
     Response(FALSE, 500, "error"), Fault}

\* one issued request, as recorded in http
Request(method, url, entity_id, data, resp) ==
    [method |-> method, url |-> url, entity_id |-> entity_id, data |-> data,
     fault |-> resp.fault, status_code |-> resp.status_code, text |-> resp.text]

---------------------------------------------------------------------------
(* What a tool call gives back *)

NoArgs == [entity_id |-> "", state |-> FALSE, brightness |-> <<>>]

\* raised: an exception left the tool; otherwise kind/msg/items is the value
Returned(kind, msg, items) ==
    [raised |-> FALSE, kind |-> kind, msg |-> msg, items |-> items]

Raised(detail) ==
    [raised |-> TRUE, kind |-> "exception", msg |-> <<detail>>, items |-> <<>>]

NoRet == Returned("none", <<>>, <<>>)

---------------------------------------------------------------------------
(* HomeAssistant.call_service, turn_on_light, turn_off_light *)

\* call_service that takes every answer for a success
call_service_any_status(resp) == ~resp.fault

\* the return value of call_service for a response that arrived
call_service(resp) == resp.status_code = HTTP_OK

\* int(brightness * 255 / 100): truncation of a non-negative quotient
brightness_value(brightness) == (brightness * FULL_SCALE) \div PERCENT

\* the keyword arguments turn_on_light adds to the write
turn_on_light(brightness) ==
    IF brightness # <<>> THEN <<brightness_value(brightness[1])>> ELSE <<>>

\* turn_off_light passes no keyword arguments
turn_off_light == <<>>

\* the service change_light_state invokes, and its data
WriteService(state) == IF state THEN "turn_on" ELSE "turn_off"

WriteData(state, brightness) ==
    IF state THEN turn_on_light(brightness) ELSE turn_off_light

\* the state token a platform that applies the write ends in
Applied(state) == IF state THEN "on" ELSE "off"

---------------------------------------------------------------------------
(* HomeAssistant.simple_get_state *)

\* simple_get_state that drops the state token it read
simple_get_state_no_token(resp) == "None"

\* response.json()['state'], or None after printing the error
simple_get_state(resp) ==
    IF resp.status_code = HTTP_OK THEN resp.text ELSE "None"

---------------------------------------------------------------------------
(* HomeAssistant.change_light_state: the messages it builds *)

ResultHead(entity_id) == <<"Changing light state for", entity_id>>

TurnedMsg(state, brightness) ==
    IF state
    THEN <<"Turned light on">> \o
         (IF brightness # <<>>
          THEN <<"with brightness set to", ToString(brightness[1]), "%">>
          ELSE <<>>)
    ELSE <<"Turned light off">>

FailedMsg(entity_id, state) ==
    IF state THEN <<"Failed to turn on", entity_id>>
    ELSE <<"Failed to turn off", entity_id>>

CurrentStateMsg(entity_id, new_state) == <<"Current state of", entity_id, new_state>>

ErrorMsg(detail) == <<"Error changing light state:", detail>>

\* the except clause of change_light_state
cls_except(detail) == Returned("text", ErrorMsg(detail), <<>>)

\* a write step that goes on to the read-back whatever call_service returned
cls_after_write_no_return(entity_id, state, resp) ==
    IF resp.fault THEN cls_except(resp.text) ELSE NoRet

\* the outcome of the write step: the value returned at once, or NoRet when
\* the call goes on to the read-back
cls_after_write(entity_id, state, resp) ==
    IF resp.fault THEN cls_except(resp.text)
    ELSE IF call_service(resp) THEN NoRet
    ELSE Returned("text", FailedMsg(entity_id, state), <<>>)

\* the value returned after the read-back
cls_after_read(entity_id, state, brightness, resp) ==
    IF resp.fault THEN cls_except(resp.text)
    ELSE Returned("text",
                  ResultHead(entity_id) \o TurnedMsg(state, brightness)
                    \o CurrentStateMsg(entity_id, simple_get_state(resp)),
                  <<>>)

---------------------------------------------------------------------------
(* NodeSmartHomeAgent.call_llm *)

\* Assistant(...) built once and kept: every request runs the same object
SharedAssistant(fresh) == 1

\* Assistant(...) inside call_llm: a new object on every invocation
NewAssistant(fresh) == fresh

\* HomeAssistant.__init__: base_url and headers, read from the environment
HomeAssistantInit == [base_url |-> "HOME_ASSISTANT_BASE_URL",
                      headers |-> "Bearer HOME_ASSISTANT_ACCESS_TOKEN"]

Init ==
    /\ ha = HomeAssistantInit
    /\ light \in [Entities -> {"on", "off"}]
    /\ pc = [r \in Reqs |-> "idle"]
    /\ assistant = [r \in Reqs |-> 0]
    /\ nextObj = 1
    /\ tool = [r \in Reqs |-> "none"]
    /\ args = [r \in Reqs |-> NoArgs]
    /\ http = [r \in Reqs |-> <<>>]
    /\ ret = [r \in Reqs |-> NoRet]
    /\ interfered = [r \in Reqs |-> FALSE]
    /\ all_entities = <<>>
    /\ idx = 0
    /\ matching_entities = <<>>

\* the RPC substrate delivers a request: call_llm builds its Assistant and runs it
CallLlm(r) ==
    /\ pc[r] = "idle"
    /\ assistant' = [assistant EXCEPT ![r] = NewAssistant(nextObj)]
    /\ nextObj' = nextObj + 1
    /\ pc' = [pc EXCEPT ![r] = "llm"]
    /\ UNCHANGED <<ha, light, tool, args, http, ret, interfered, searchVars>>

\* the orchestrator takes the tool's outcome and goes on
LlmConsume(r) ==
    /\ pc[r] = "returned"
    /\ pc' = [pc EXCEPT ![r] = "llm"]
    /\ tool' = [tool EXCEPT ![r] = "none"]
    /\ args' = [args EXCEPT ![r] = NoArgs]
    /\ http' = [http EXCEPT ![r] = <<>>]
    /\ ret' = [ret EXCEPT ![r] = NoRet]
    /\ interfered' = [interfered EXCEPT ![r] = FALSE]
    /\ all_entities' = <<>>
    /\ idx' = 0
    /\ matching_entities' = <<>>
    /\ UNCHANGED <<ha, light, assistant, nextObj>>

\* assistant.arun returns the final text: the request is answered
LlmFinish(r) ==
    /\ pc[r] = "llm"
    /\ pc' = [pc EXCEPT ![r] = "done"]
    /\ UNCHANGED <<ha, light, assistant, nextObj, tool, args, http, ret, interfered,
                   searchVars>>

---------------------------------------------------------------------------
(* HomeAssistant.change_light_state: its steps *)

\* the orchestrator invokes change_light_state(entity_id, state, brightness)
ClsStart(r, B) ==
    /\ pc[r] = "llm"
    /\ \E e \in Entities, s \in BOOLEAN, b \in B :
         args' = [args EXCEPT ![r] = [entity_id |-> e, state |-> s, brightness |-> b]]
    /\ tool' = [tool EXCEPT ![r] = "change_light_state"]
    /\ pc' = [pc EXCEPT ![r] = "cls_write"]
    /\ UNCHANGED <<ha, light, assistant, nextObj, http, ret, interfered, searchVars>>

\* turn_on_light / turn_off_light -> call_service: the one write.  An accepted
\* write is applied; a write lost to a transport fault may or may not have been.
ClsWrite(r) ==
    /\ pc[r] = "cls_write"
    /\ LET a == args[r] IN
       \E resp \in ServiceResponses, applied \in BOOLEAN :
         /\ ~resp.fault => (applied <=> resp.status_code = HTTP_OK)
         /\ http' = [http EXCEPT ![r] = Append(@,
                        Request("POST", WriteService(a.state), a.entity_id,
                                WriteData(a.state, a.brightness), resp))]
         /\ light' = IF applied THEN [light EXCEPT ![a.entity_id] = Applied(a.state)]
                     ELSE light
         /\ interfered' = [q \in Reqs |->
                             IF /\ q # r
                                /\ applied
                                /\ pc[q] = "cls_read"
                                /\ args[q].entity_id = a.entity_id
                             THEN TRUE ELSE interfered[q]]
         /\ LET out == cls_after_write(a.entity_id, a.state, resp) IN
              /\ ret' = [ret EXCEPT ![r] = out]
              /\ pc' = [pc EXCEPT ![r] = IF out = NoRet THEN "cls_read" ELSE "returned"]
    /\ UNCHANGED <<ha, assistant, nextObj, tool, args, searchVars>>

\* simple_get_state: the read-back, then the return
ClsRead(r) ==
    /\ pc[r] = "cls_read"
    /\ LET a == args[r] IN
       \E resp \in StateResponses(a.entity_id) :
         /\ http' = [http EXCEPT ![r] = Append(@,
                        Request("GET", "states", a.entity_id, <<>>, resp))]
         /\ ret' = [ret EXCEPT ![r] =
                        cls_after_read(a.entity_id, a.state, a.brightness, resp)]
         /\ pc' = [pc EXCEPT ![r] = "returned"]
    /\ UNCHANGED <<ha, light, assistant, nextObj, tool, args, interfered, searchVars>>

---------------------------------------------------------------------------
(* The worker under concurrent requests that change lights *)

Next ==
    \E r \in Reqs :
        \/ CallLlm(r)
        \/ ClsStart(r, NoBrightness)
        \/ ClsWrite(r)
        \/ ClsRead(r)
        \/ LlmConsume(r)
        \/ LlmFinish(r)

Spec == Init /\ [][Next]_vars

---------------------------------------------------------------------------
(* HomeAssistant.get_entity_area *)

\* None on a non-200 answer or an empty rendering, else the stripped text
get_entity_area(resp) ==
    IF resp.status_code # HTTP_OK THEN <<>>
    ELSE IF resp.text = "" THEN <<>> ELSE <<resp.text>>

---------------------------------------------------------------------------
(* HomeAssistant.search_smart_home_devices: its pieces *)

Max(a, b) == IF a >= b THEN a ELSE b

\* entry i of a snapshot; id_score and name_score are what fuzz.partial_ratio
\* gives for the query against its entity_id and its friendly_name
Entity(i, id_score, name_score) ==
    [entity_id |-> "light." \o ToString(i), friendly_name |-> "Light " \o ToString(i),
     id_score |-> id_score, name_score |-> name_score]

\* the bodies GET /api/states can answer with: every list of up to MaxEntities
\* entries, identifiers distinct
Snapshots ==
    UNION {{[i \in 1 .. n |-> Entity(i, sc[i][1], sc[i][2])] :
               sc \in [1 .. n -> Scores \X Scores]} : n \in 0 .. MaxEntities}

\* a threshold test that lets a score of exactly 70 through
is_match_inclusive(entity) ==
    entity.id_score >= THRESHOLD \/ entity.name_score >= THRESHOLD

\* if id_score > 70 or name_score > 70
is_match(entity) == entity.id_score > THRESHOLD \/ entity.name_score > THRESHOLD

\* the record appended to matching_entities
candidate(entity, area) ==
    [entity_id |-> entity.entity_id, entity_name |-> entity.friendly_name,
     entity_area |-> area, match_score |-> Max(entity.id_score, entity.name_score)]

\* an unstable descending sort: x goes in front of the elements it ties with
insert_at_before_ties(sorted, x) ==
    Cardinality({k \in 1 .. Len(sorted) : sorted[k].match_score > x.match_score}) + 1

\* where list.sort(key=match_score, reverse=True) leaves x among the elements
\* already placed before it: behind every element that does not score lower
insert_at(sorted, x) ==
    Cardinality({k \in 1 .. Len(sorted) : sorted[k].match_score >= x.match_score}) + 1

Insert(sorted, x) ==
    LET p == insert_at(sorted, x) IN
    SubSeq(sorted, 1, p - 1) \o <<x>> \o SubSeq(sorted, p, Len(sorted))

RECURSIVE sort_reverse(_)
\* matching_entities.sort(key=lambda x: x['match_score'], reverse=True)
sort_reverse(seq) ==
    IF seq = <<>> THEN <<>>
    ELSE Insert(sort_reverse(SubSeq(seq, 1, Len(seq) - 1)), seq[Len(seq)])

\* json.dumps({"error": f"Error: {status_code} - {text}"})
json_error(resp) ==
    Returned("json_error", <<"error", "Error:", ToString(resp.status_code), resp.text>>, <<>>)

\* json.dumps(matching_entities) after the sort
search_return(matching) == Returned("json_list", <<>>, sort_reverse(matching))

---------------------------------------------------------------------------
(* HomeAssistant.search_smart_home_devices: its steps *)

\* the orchestrator invokes search_smart_home_devices(query)
SearchStart(r) ==
    /\ pc[r] = "llm"
    /\ tool' = [tool EXCEPT ![r] = "search_smart_home_devices"]
    /\ pc' = [pc EXCEPT ![r] = "search_get"]
    /\ UNCHANGED <<ha, light, assistant, nextObj, args, http, ret, interfered, searchVars>>

\* requests.get(/api/states) raises: nothing in the tool catches it
SearchGetFault(r) ==
    /\ pc[r] = "search_get"
    /\ http' = [http EXCEPT ![r] = Append(@, Request("GET", "states", "", <<>>, Fault))]
    /\ ret' = [ret EXCEPT ![r] = Raised(Fault.text)]
    /\ pc' = [pc EXCEPT ![r] = "returned"]
    /\ UNCHANGED <<ha, light, assistant, nextObj, tool, args, interfered, searchVars>>

\* a non-200 answer: the error payload
SearchGetError(r) ==
    /\ pc[r] = "search_get"
    /\ LET resp == Response(FALSE, 500, "error") IN
         /\ http' = [http EXCEPT ![r] = Append(@, Request("GET", "states", "", <<>>, resp))]
         /\ ret' = [ret EXCEPT ![r] = json_error(resp)]
    /\ pc' = [pc EXCEPT ![r] = "returned"]
    /\ UNCHANGED <<ha, light, assistant, nextObj, tool, args, interfered, searchVars>>

\* a 200 answer: the snapshot; an empty one is sorted and returned at once
SearchGetOk(r) ==
    /\ pc[r] = "search_get"
    /\ \E snap \in Snapshots :
         /\ all_entities' = snap
         /\ http' = [http EXCEPT ![r] = Append(@,
                        Request("GET", "states", "", <<>>, Response(FALSE, HTTP_OK, "[...]")))]
         /\ matching_entities' = <<>>
         /\ IF snap = <<>>
            THEN /\ idx' = 0
                 /\ ret' = [ret EXCEPT ![r] = search_return(<<>>)]
                 /\ pc' = [pc EXCEPT ![r] = "returned"]
            ELSE /\ idx' = 1
                 /\ ret' = ret
                 /\ pc' = [pc EXCEPT ![r] = "search_loop"]
    /\ UNCHANGED <<ha, light, assistant, nextObj, tool, args, interfered>>

\* the loop moves past entry idx with the candidates `matching`; after the last
\* entry the list is sorted and returned
SearchAdvance(r, matching) ==
    /\ matching_entities' = matching
    /\ IF idx = Len(all_entities)
       THEN /\ idx' = idx
            /\ ret' = [ret EXCEPT ![r] = search_return(matching)]
            /\ pc' = [pc EXCEPT ![r] = "returned"]
       ELSE /\ idx' = idx + 1
            /\ ret' = ret
            /\ pc' = [pc EXCEPT ![r] = "search_loop"]

\* one iteration on an entry that does not match: no request is made
SearchSkip(r) ==
    /\ pc[r] = "search_loop"
    /\ ~is_match(all_entities[idx])
    /\ SearchAdvance(r, matching_entities)
    /\ UNCHANGED <<ha, light, assistant, nextObj, tool, args, http, interfered,
                   all_entities>>

\* one iteration on a matching entry: get_entity_area answers
SearchMatch(r) ==
    /\ pc[r] = "search_loop"
    /\ is_match(all_entities[idx])
    /\ LET entity == all_entities[idx] IN
       \E resp \in TemplateResponses \ {Fault} :
         /\ http' = [http EXCEPT ![r] = Append(@,
                        Request("POST", "template", entity.entity_id, <<>>, resp))]
         /\ SearchAdvance(r, Append(matching_entities,
                                    candidate(entity, get_entity_area(resp))))
    /\ UNCHANGED <<ha, light, assistant, nextObj, tool, args, interfered, all_entities>>

\* one iteration on a matching entry: requests.post in get_entity_area raises,
\* and neither get_entity_area nor the search catches it
SearchMatchFault(r) ==
    /\ pc[r] = "search_loop"
    /\ is_match(all_entities[idx])
    /\ http' = [http EXCEPT ![r] = Append(@,
                   Request("POST", "template", all_entities[idx].entity_id, <<>>, Fault))]
    /\ ret' = [ret EXCEPT ![r] = Raised(Fault.text)]
    /\ pc' = [pc EXCEPT ![r] = "returned"]
    /\ UNCHANGED <<ha, light, assistant, nextObj, tool, args, interfered, searchVars>>

---------------------------------------------------------------------------
(* HomeAssistant.get_entity_info: its steps *)

\* json.dumps({"state": ..., "area": ..., "attributes": ...})
info_return(state, area) ==
    Returned("json", <<"state", state, "area">> \o area \o <<"attributes">>, <<>>)

\* the orchestrator invokes get_entity_info(entity_id)
InfoStart(r) ==
    /\ pc[r] = "llm"
    /\ \E e \in Entities : args' = [args EXCEPT ![r] = [NoArgs EXCEPT !.entity_id = e]]
    /\ tool' = [tool EXCEPT ![r] = "get_entity_info"]
    /\ pc' = [pc EXCEPT ![r] = "info_get"]
    /\ UNCHANGED <<ha, light, assistant, nextObj, http, ret, interfered, searchVars>>

\* requests.get(/api/states/{entity_id}): a fault leaves the tool, a non-200
\* answer is the error payload, a 200 answer goes on to the area lookup
InfoGet(r) ==
    /\ pc[r] = "info_get"
    /\ \E resp \in StateResponses(args[r].entity_id) :
         /\ http' = [http EXCEPT ![r] = Append(@,
                        Request("GET", "states", args[r].entity_id, <<>>, resp))]
         /\ IF resp.fault
            THEN /\ ret' = [ret EXCEPT ![r] = Raised(resp.text)]
                 /\ pc' = [pc EXCEPT ![r] = "returned"]
            ELSE IF resp.status_code = HTTP_OK
            THEN /\ ret' = ret
                 /\ pc' = [pc EXCEPT ![r] = "info_area"]
            ELSE /\ ret' = [ret EXCEPT ![r] = json_error(resp)]
                 /\ pc' = [pc EXCEPT ![r] = "returned"]
    /\ UNCHANGED <<ha, light, assistant, nextObj, tool, args, interfered, searchVars>>

\* get_entity_area inside the json.dumps argument, then the return
InfoArea(r) ==
    /\ pc[r] = "info_area"
    /\ \E resp \in TemplateResponses :
         /\ http' = [http EXCEPT ![r] = Append(@,
                        Request("POST", "template", args[r].entity_id, <<>>, resp))]
         /\ ret' = [ret EXCEPT ![r] =
                        IF resp.fault THEN Raised(resp.text)
                        ELSE info_return(light[args[r].entity_id], get_entity_area(resp))]
    /\ pc' = [pc EXCEPT ![r] = "returned"]
    /\ UNCHANGED <<ha, light, assistant, nextObj, tool, args, interfered, searchVars>>

---------------------------------------------------------------------------
(* One request running the whole tool surface, every argument drawn *)

First == {r \in Reqs : \A q \in Reqs : r <= q}

NextTools ==
    \E r \in First :
        \/ CallLlm(r)
        \/ ClsStart(r, AllBrightness)
        \/ ClsWrite(r)
        \/ ClsRead(r)
        \/ SearchStart(r)
        \/ SearchGetFault(r)
        \/ SearchGetError(r)
        \/ SearchGetOk(r)
        \/ SearchSkip(r)
        \/ SearchMatch(r)
        \/ SearchMatchFault(r)
        \/ InfoStart(r)
        \/ InfoGet(r)
        \/ InfoArea(r)
        \/ LlmConsume(r)
        \/ LlmFinish(r)

SpecTools == Init /\ [][NextTools]_vars

---------------------------------------------------------------------------
(* Vocabulary of the properties *)

InCall(r, name) == tool[r] = name

Done(r, name) == tool[r] = name /\ pc[r] = "returned"

Posts(r) == {i \in DOMAIN http[r] : http[r][i].method = "POST"}

Gets(r) == {i \in DOMAIN http[r] : http[r][i].method = "GET"}

\* request i of r's tool call was answered with status 200
Accepted(r, i) == ~http[r][i].fault /\ http[r][i].status_code = HTTP_OK

\* request i of r's tool call was answered with another status
Refused(r, i) == ~http[r][i].fault /\ http[r][i].status_code # HTTP_OK

Contains(msg, fragment) == \E i \in DOMAIN msg : msg[i] = fragment

InFlight(r) == pc[r] \notin {"idle", "done"}

\* Python's round() of percent * 255 / 100: to the nearest integer, a half to
\* the even neighbour
Round(percent) ==
    LET n == percent * FULL_SCALE
        q == n \div PERCENT
        rem == n % PERCENT
    IN  IF 2 * rem > PERCENT THEN q + 1
        ELSE IF 2 * rem < PERCENT THEN q
        ELSE IF q % 2 = 0 THEN q ELSE q + 1

\* position of a candidate's entry in the snapshot
Pos(c) == CHOOSE k \in DOMAIN all_entities : all_entities[k].entity_id = c.entity_id

---------------------------------------------------------------------------
(* C1: in every execution of change_light_state at most one write has been  *)
(* sent at any moment and exactly one once the call is past its write step; *)
(* that write is light.turn_on for state = true and light.turn_off for      *)
(* state = false, on the call's entity; and every read of the entity's      *)
(* state comes after a write that was answered with success, so no read     *)
(* precedes the write and none follows a failed write.                      *)
WriteThenVerify ==
    \A r \in Reqs :
        InCall(r, "change_light_state") =>
            /\ Cardinality(Posts(r)) <= 1
            /\ pc[r] \in {"cls_read", "returned"} => Cardinality(Posts(r)) = 1
            /\ \A i \in Posts(r) :
                 /\ http[r][i].url = (IF args[r].state THEN "turn_on" ELSE "turn_off")
                 /\ http[r][i].entity_id = args[r].entity_id
            /\ \A j \in Gets(r) : \E i \in Posts(r) : i < j /\ Accepted(r, i)

\* a call that wrote, was accepted, read back and returned
WriteThenVerifyWitness ==
    \E r \in Reqs :
        /\ Done(r, "change_light_state")
        /\ Len(http[r]) = 2
        /\ http[r][1].method = "POST" /\ Accepted(r, 1)
        /\ http[r][2].method = "GET"

(* C2: change_light_state never raises, and when the platform answers the   *)
(* write with a non-200 status the call returns a failure text, not a       *)
(* "Turned light ..." message, that names the attempted action and holds    *)
(* the entity_id.                                                           *)
RefusedWriteFails ==
    \A r \in Reqs :
        Done(r, "change_light_state") =>
            /\ ~ret[r].raised
            /\ ret[r].kind = "text"
            /\ Refused(r, 1) =>
                 /\ ret[r].msg[1] =
                      (IF args[r].state THEN "Failed to turn on" ELSE "Failed to turn off")
                 /\ Contains(ret[r].msg, args[r].entity_id)
                 /\ ~Contains(ret[r].msg, "Turned light on")
                 /\ ~Contains(ret[r].msg, "Turned light off")

\* a turn-on with a brightness that the platform refused
RefusedWriteFailsWitness ==
    \E r \in Reqs :
        /\ Done(r, "change_light_state")
        /\ args[r].state /\ args[r].brightness # <<>>
        /\ Refused(r, 1)
        /\ Len(http[r]) = 1

(* C3: when the write succeeded and the read-back fails (a non-success      *)
(* status or a transport fault), the result is still the success message    *)
(* "Turned light on" / "Turned light off" reporting an unknown state, never *)
(* a failure or error result.                                               *)
FailedReadKeepsSuccess ==
    \A r \in Reqs :
        (/\ Done(r, "change_light_state")
         /\ Len(http[r]) = 2
         /\ Accepted(r, 1)
         /\ ~Accepted(r, 2)) =>
            /\ ~ret[r].raised
            /\ Contains(ret[r].msg,
                        IF args[r].state THEN "Turned light on" ELSE "Turned light off")
            /\ ~Contains(ret[r].msg, "Error changing light state:")
            /\ ret[r].msg[Len(ret[r].msg)] = "None"

(* C4: for every percent p in 0..100, turning a light on with brightness p  *)
(* sends the brightness round(p * 255 / 100), a value in 0..255; for p = 50 *)
(* it sends 128.                                                            *)
BrightnessIsRounded ==
    \A r \in Reqs :
        (/\ InCall(r, "change_light_state")
         /\ args[r].state
         /\ args[r].brightness # <<>>) =>
            \A i \in Posts(r) :
                /\ http[r][i].data = <<Round(args[r].brightness[1])>>
                /\ http[r][i].data[1] \in 0 .. FULL_SCALE
                /\ args[r].brightness[1] = 50 => http[r][i].data[1] = 128

(* C5: each of the three tools returns a value for every platform outcome:  *)
(* no fault leaves the tool, and when its own request to the platform       *)
(* fails (a non-200 status or a transport fault) the value is a JSON        *)
(* payload with an "error" key or a descriptive string.                     *)
ToolsAlwaysReturn ==
    \A r \in Reqs :
        pc[r] = "returned" =>
            /\ ~ret[r].raised
            /\ ~Accepted(r, 1) => ret[r].kind \in {"json_error", "text"}

(* C6: a placement lookup that fails never fails the search: once the       *)
(* snapshot is fetched the search returns the candidate list, and every     *)
(* matching entity whose template request gave an empty result, a non-200   *)
(* status or a transport error is in it with its entity_area absent.        *)
PlacementFailureKeepsSearch ==
    \A r \in Reqs :
        (/\ Done(r, "search_smart_home_devices")
         /\ Accepted(r, 1)) =>
            /\ ~ret[r].raised
            /\ ret[r].kind = "json_list"
            /\ \A i \in Posts(r) :
                 (~Accepted(r, i) \/ http[r][i].text = "") =>
                    \E k \in DOMAIN ret[r].items :
                        /\ ret[r].items[k].entity_id = http[r][i].entity_id
                        /\ ret[r].items[k].entity_area = <<>>

(* C7: the candidates search returns are ordered by non-increasing          *)
(* match_score, and candidates with equal match_score keep the relative     *)
(* order of their entries in the snapshot.                                  *)
SortedAndStable ==
    \A r \in Reqs :
        (Done(r, "search_smart_home_devices") /\ ret[r].kind = "json_list") =>
            LET items == ret[r].items IN
            \A i, j \in DOMAIN items :
                i < j =>
                    /\ items[i].match_score >= items[j].match_score
                    /\ items[i].match_score = items[j].match_score =>
                         Pos(items[i]) < Pos(items[j])

\* a result the sort reordered, that also holds a tie
SortedAndStableWitness ==
    \E r \in Reqs :
        /\ Done(r, "search_smart_home_devices")
        /\ ret[r].kind = "json_list"
        /\ LET items == ret[r].items IN
             /\ Len(items) = 3
             /\ items[1].match_score > items[2].match_score
             /\ items[2].match_score = items[3].match_score
             /\ Pos(items[1]) > Pos(items[2])

(* C8: a snapshot entry is in the search result if and only if the larger   *)
(* of its two scores exceeds 70, and every returned candidate's match_score *)
(* is that larger score.                                                    *)
ThresholdDecides ==
    \A r \in Reqs :
        (Done(r, "search_smart_home_devices") /\ ret[r].kind = "json_list") =>
            LET items == ret[r].items IN
            /\ \A k \in DOMAIN all_entities :
                 LET e == all_entities[k]
                     best == IF e.id_score >= e.name_score THEN e.id_score
                             ELSE e.name_score
                     hits == {i \in DOMAIN items : items[i].entity_id = e.entity_id}
                 IN  /\ (hits # {}) <=> (best > 70)
                     /\ Cardinality(hits) <= 1
                     /\ \A i \in hits : items[i].match_score = best
            /\ \A i \in DOMAIN items :
                 /\ items[i].match_score > 70
                 /\ \E k \in DOMAIN all_entities :
                        all_entities[k].entity_id = items[i].entity_id

\* a result that left out an entry scoring 70 on both fields and kept one
\* whose better score is 71
ThresholdDecidesWitness ==
    \E r \in Reqs :
        /\ Done(r, "search_smart_home_devices")
        /\ ret[r].kind = "json_list"
        /\ \E k \in DOMAIN all_entities :
             /\ all_entities[k].id_score = 70 /\ all_entities[k].name_score = 70
             /\ \A i \in DOMAIN ret[r].items :
                    ret[r].items[i].entity_id # all_entities[k].entity_id
        /\ \E i \in DOMAIN ret[r].items : ret[r].items[i].match_score = 71

(* C9: requests in flight share no mutable state: every request that is in  *)
(* flight runs an Assistant of its own, different from that of every other  *)
(* request in flight, and the HomeAssistant instance they all reach keeps   *)
(* the base_url and headers it was constructed with.                        *)
NoSharedMutableState ==
    /\ ha = HomeAssistantInit
    /\ \A r \in Reqs : InFlight(r) => assistant[r] # 0
    /\ \A r, q \in Reqs : (r # q /\ InFlight(r) /\ InFlight(q)) =>
                              assistant[r] # assistant[q]

\* two requests inside a tool call at the same time
NoSharedMutableStateWitness ==
    \E r, q \in Reqs :
        /\ r # q
        /\ pc[r] = "cls_read"
        /\ pc[q] = "cls_read"

(* C10: when the platform applies accepted writes and answers reads         *)
(* truthfully, and no other request wrote the same entity between a call's  *)
(* write and its read-back, the state token in the call's message is the    *)
(* requested state: "on" for state = true, "off" for state = false.         *)
ReadBackShowsRequestedState ==
    \A r \in Reqs :
        (/\ Done(r, "change_light_state")
         /\ Len(http[r]) = 2
         /\ Accepted(r, 1)
         /\ Accepted(r, 2)
         /\ ~interfered[r]) =>
            /\ Contains(ret[r].msg, "Current state of")
            /\ ret[r].msg[Len(ret[r].msg)] = (IF args[r].state THEN "on" ELSE "off")

\* an undisturbed read-back while another request, past its own write, works
\* on the other light
ReadBackShowsRequestedStateWitness ==
    \E r, q \in Reqs :
        /\ r # q
        /\ Done(r, "change_light_state")
        /\ Len(http[r]) = 2 /\ Accepted(r, 1) /\ Accepted(r, 2)
        /\ ~interfered[r]
        /\ args[r].state
        /\ pc[q] = "cls_read"
        /\ args[q].entity_id # args[r].entity_id

\* the condition of C10 matters: a read-back that another request's write
\* preceded can report the state that request asked for
InterferedReadBack ==
    \E r \in Reqs :
        /\ Done(r, "change_light_state")
        /\ Len(http[r]) = 2 /\ Accepted(r, 1) /\ Accepted(r, 2)
        /\ interfered[r]
        /\ args[r].state
        /\ ret[r].msg[Len(ret[r].msg)] = "off"

===========================================================================
